---- MODULE Spec2Model ----
(***************************************************************************)
(* A state-machine model of the Arcanoid engine (src/game_engine.py) and   *)
(* of the sprite variants (src/sprites/*.py, src/game.py).                 *)
(*                                                                         *)
(* Numbers.  Rectangles hold integer pixels, as pygame.Rect does.  The     *)
(* float quantities of the code (positions, velocities) are fixed-point    *)
(* integers counted in quanta of 1/Scale pixel; the frame time dt is a     *)
(* whole number of ticks, and a velocity is counted in quanta per tick, so *)
(* position + velocity * dt is exact.  Every float operation that rounds   *)
(* (normalize, sin, cos, the products with speed) rounds to the nearest    *)
(* quantum; int() truncates toward zero as Python's does.                  *)
(***************************************************************************)
EXTENDS Integers, Sequences, FiniteSets, TLC

VARIABLES
    state,          \* GameEngine.state: "MENU", "PLAYING" or "GAME_OVER"
    running,        \* GameEngine.running
    pc,             \* position of run(): "loop" while the loop runs, "done" after it
    score,          \* GameEngine.score
    lives,          \* GameEngine.lives
    victory,        \* GameEngine.victory
    paddle,         \* GameEngine.paddle: its rect (position is synced to it)
    ball,           \* GameEngine.ball: rect, position, velocity, _launched
    bricks,         \* GameEngine.level.bricks: the live bricks, in list order
    custom_layout,  \* GameEngine.custom_layout (<<>> stands for None)
    ev,             \* what the last step of the engine did (history)
    probe           \* inputs and result of the last pure-function application

vars == <<state, running, pc, score, lives, victory, paddle, ball, bricks,
          custom_layout, ev, probe>>

engineVars == <<state, running, pc, score, lives, victory, paddle, ball,
                bricks, custom_layout, ev>>

-----------------------------------------------------------------------------
(* The configuration (GameConfig): a small window.                         *)

Scale == 8              \* quanta per pixel
MaxDt == 1              \* a frame lasts 1..MaxDt ticks
WindowWidth == 12
WindowHeight == 44
PaddleWidth == 4
PaddleHeight == 2
PaddleSpeed == 16       \* quanta per tick (config.paddle_speed * multiplier)
BallRadius == 1
BallSpeed == 25         \* quanta per tick (config.ball_speed * multiplier)
BrickRows == 1
BrickCols == 2
BrickHeight == 2
BrickPadding == 1
BrickTopOffset == 1
BrickStrength == 1      \* difficulty.brick_strength
InitialLives == 2

(* Constants of the code.                                                  *)
PaddleMargin == 30      \* Paddle.__init__: window_height - paddle_height - 30
StickGap == 4           \* Ball.stick_to_paddle: paddle_rect.top - 4
BounceGap == 1          \* _bounce_from_paddle / _handle_brick_collisions: - 1
PointsPerStrength == 50 \* Level._build_bricks: points = 50 * strength
MaxAngle == 45          \* _bounce_from_paddle: angle = offset * 45
LaunchDirX == 6         \* Ball.launch: Vector2(0.6, -1), times ten
LaunchDirY == -10
SpriteMaxAngle == 70    \* sprites Ball.bounce_off_paddle: math.radians(70)

-----------------------------------------------------------------------------
(* Arithmetic of the code's numeric types.                                 *)

Abs(a) == IF a < 0 THEN -a ELSE a

Sign(a) == IF a < 0 THEN -1 ELSE IF a > 0 THEN 1 ELSE 0

Min2(a, b) == IF a <= b THEN a ELSE b

Max2(a, b) == IF a >= b THEN a ELSE b

\* Python's int(x) of the float a / b (b > 0): truncation toward zero.
Trunc(a, b) == IF a >= 0 THEN a \div b ELSE -((-a) \div b)

\* The float a / b (b > 0) rounded to the nearest integer, halves away from zero.
RoundDiv(a, b) == Sign(a) * ((2 * Abs(a) + b) \div (2 * b))

\* Python's floor division a // b (b > 0).
FloorDiv(a, b) == a \div b

-----------------------------------------------------------------------------
(* pygame.Rect: a record [x, y, w, h] of integers.                         *)

Rect(x, y, w, h) == [x |-> x, y |-> y, w |-> w, h |-> h]

Left(r) == r.x

Right(r) == r.x + r.w

Top(r) == r.y

Bottom(r) == r.y + r.h

CenterX(r) == r.x + FloorDiv(r.w, 2)

SetLeft(r, v) == [r EXCEPT !.x = v]

SetRight(r, v) == [r EXCEPT !.x = v - r.w]

SetTop(r, v) == [r EXCEPT !.y = v]

SetBottom(r, v) == [r EXCEPT !.y = v - r.h]

SetCenterX(r, v) == [r EXCEPT !.x = v - FloorDiv(r.w, 2)]

\* Rect.colliderect: the rectangles overlap in a region of positive area.
ColliderRect(a, b) ==
    /\ a.w > 0 /\ a.h > 0 /\ b.w > 0 /\ b.h > 0
    /\ a.x < b.x + b.w
    /\ a.y < b.y + b.h
    /\ a.x + a.w > b.x
    /\ a.y + a.h > b.y

-----------------------------------------------------------------------------
(* pygame.Vector2 in quanta: a pair <<x, y>>.                              *)

\* |a| * s / sqrt(n) rounded to the nearest integer (n > 0, 0 <= |a| <= sqrt(n)).
RoundOverSqrt(a, s, n) ==
    LET t == 4 * a * a * s * s
    IN  CHOOSE q \in 0 .. s :
            /\ (q = 0 \/ (2 * q - 1) * (2 * q - 1) * n <= t)
            /\ t < (2 * q + 1) * (2 * q + 1) * n

\* v.normalize() * s for a vector v of nonzero length.
NormalizeTimes(v, s) ==
    LET n == v[1] * v[1] + v[2] * v[2]
    IN  << Sign(v[1]) * RoundOverSqrt(Abs(v[1]), s, n),
           Sign(v[2]) * RoundOverSqrt(Abs(v[2]), s, n) >>

\* math.hypot(*v): sqrt(x^2 + y^2) rounded to the nearest integer.
Hypot(v) ==
    LET n == v[1] * v[1] + v[2] * v[2]
    IN  CHOOSE h \in 0 .. Abs(v[1]) + Abs(v[2]) :
            /\ (h = 0 \/ (2 * h - 1) * (2 * h - 1) <= 4 * n)
            /\ 4 * n < (2 * h + 1) * (2 * h + 1)

\* Precision of the fixed-point radians, sines and cosines.
TrigScale == 100 * 100

\* pi at TrigScale.
PiFixed == 31416

\* math.radians of the angle num / den degrees (den > 0), at TrigScale.
Radians(num, den) == RoundDiv(num * PiFixed, 180 * den)

\* x * y at TrigScale, for fixed-point x, y >= 0.
MulFixed(x, y) == (x * y + TrigScale \div 2) \div TrigScale

\* math.sin(x) for a fixed-point x with |x| <= 70 degrees: its series up to x^7.
SinFixed(x) ==
    LET a  == Abs(x)
        a2 == MulFixed(a, a)
        a3 == MulFixed(a2, a)
        a5 == MulFixed(a3, a2)
        a7 == MulFixed(a5, a2)
    IN  Sign(x) * (a - a3 \div 6 + a5 \div 120 - a7 \div 5040)

\* math.cos(x) for a fixed-point x with |x| <= 70 degrees: its series up to x^6.
CosFixed(x) ==
    LET a  == Abs(x)
        a2 == MulFixed(a, a)
        a4 == MulFixed(a2, a2)
        a6 == MulFixed(a4, a2)
    IN  TrigScale - a2 \div 2 + a4 \div 24 - a6 \div 720

-----------------------------------------------------------------------------
(* MovingObject.                                                           *)

\* MovingObject.move: position += velocity * dt; rect.topleft = int(position).
Move(o, dt) ==
    LET px == o.pos[1] + o.vel[1] * dt
        py == o.pos[2] + o.vel[2] * dt
    IN  [o EXCEPT !.pos = <<px, py>>,
                  !.rect = [o.rect EXCEPT !.x = Trunc(px, Scale),
                                          !.y = Trunc(py, Scale)]]

\* MovingObject.sync_position: position.update(rect.topleft).
SyncPosition(o) == [o EXCEPT !.pos = <<o.rect.x * Scale, o.rect.y * Scale>>]

-----------------------------------------------------------------------------
(* Paddle.  Its velocity is written at the start of every update before it *)
(* is read and its position is synced to its rect at the end of every      *)
(* update, so between updates the rect is the whole state of the paddle.   *)

\* Paddle.__init__: the rect of a new paddle in a window of width ww, height wh.
PaddleRect(ww, wh) ==
    Rect(FloorDiv(ww - PaddleWidth, 2), wh - PaddleHeight - PaddleMargin,
         PaddleWidth, PaddleHeight)

PaddleInit == PaddleRect(WindowWidth, WindowHeight)

\* Mutant of PaddleUpdate: the right edge is not clamped.
PaddleUpdateNoRightClamp(r, dt, direction, ww) ==
    LET o  == [rect |-> r, pos |-> <<r.x * Scale, r.y * Scale>>,
               vel |-> <<PaddleSpeed * direction, 0>>]
        m  == Move(o, dt).rect
    IN  IF Left(m) < 0 THEN SetLeft(m, 0) ELSE m

\* Paddle.update(dt, direction) of game_engine.py in a window of width ww.
PaddleUpdate(r, dt, direction, ww) ==
    LET o  == [rect |-> r, pos |-> <<r.x * Scale, r.y * Scale>>,
               vel |-> <<PaddleSpeed * direction, 0>>]
        m  == Move(o, dt).rect
        r1 == IF Left(m) < 0 THEN SetLeft(m, 0) ELSE m
        r2 == IF Right(r1) > ww THEN SetRight(r1, ww) ELSE r1
    IN  r2

\* Paddle.update(dt) of sprites/paddle.py and game.py: the held keys move the
\* rect (rect.x takes the truncated float), then the rect is clamped.
SpritePaddleUpdate(r, dt, left, right, ww) ==
    LET a  == IF left THEN Trunc(r.x * Scale - PaddleSpeed * dt, Scale) ELSE r.x
        b  == IF right THEN Trunc(a * Scale + PaddleSpeed * dt, Scale) ELSE a
        m  == [r EXCEPT !.x = b]
        r1 == IF Left(m) < 0 THEN SetLeft(m, 0) ELSE m
        r2 == IF Right(r1) > ww THEN SetRight(r1, ww) ELSE r1
    IN  r2

-----------------------------------------------------------------------------
(* Ball: a record [rect, pos, vel, launched].                              *)

\* Ball.__init__.
BallInit ==
    LET r == Rect(FloorDiv(WindowWidth, 2) - BallRadius, FloorDiv(WindowHeight, 2),
                  BallRadius * 2, BallRadius * 2)
    IN  [rect |-> r, pos |-> <<r.x * Scale, r.y * Scale>>, vel |-> <<0, 0>>,
         launched |-> FALSE]

\* Mutant of LaunchVelocity: the direction is scaled without being normalized.
LaunchVelocityUnnormalized ==
    <<RoundDiv(LaunchDirX * BallSpeed, 10), RoundDiv(LaunchDirY * BallSpeed, 10)>>

\* Vector2(0.6, -1).normalize() * speed.
LaunchVelocity == NormalizeTimes(<<LaunchDirX, LaunchDirY>>, BallSpeed)

\* Ball.stick_to_paddle.
StickToPaddle(b, prect) ==
    SyncPosition([b EXCEPT !.rect =
        SetBottom(SetCenterX(b.rect, CenterX(prect)), Top(prect) - StickGap)])

\* Mutant of BallReset: the ball stops where it is.
BallResetInPlace(b, prect) == [b EXCEPT !.launched = FALSE, !.vel = <<0, 0>>]

\* Ball.reset.
BallReset(b, prect) ==
    [StickToPaddle(b, prect) EXCEPT !.launched = FALSE, !.vel = <<0, 0>>]

\* Mutant of Launch: a launched ball is launched again.
LaunchAgain(b) == [b EXCEPT !.launched = TRUE, !.vel = LaunchVelocity]

\* Ball.launch.
Launch(b) ==
    IF b.launched THEN b
    ELSE [b EXCEPT !.launched = TRUE, !.vel = LaunchVelocity]

\* Ball.update.
BallUpdate(b, dt) == IF ~b.launched THEN b ELSE Move(b, dt)

\* Mutant of ClampSpeedOf: the velocity is normalized and not scaled back to
\* the speed.
ClampSpeedOfUnit(v, s) ==
    IF v = <<0, 0>> THEN NormalizeTimes(<<LaunchDirX, LaunchDirY>>, 1)
    ELSE NormalizeTimes(v, 1)

\* Ball._clamp_speed for a ball of speed s.
ClampSpeedOf(v, s) ==
    IF v = <<0, 0>> THEN NormalizeTimes(<<LaunchDirX, LaunchDirY>>, s)
    ELSE NormalizeTimes(v, s)

ClampSpeed(b) == [b EXCEPT !.vel = ClampSpeedOf(b.vel, BallSpeed)]

\* Ball.bounce_horizontal.
BounceHorizontal(b) == ClampSpeed([b EXCEPT !.vel = <<-b.vel[1], b.vel[2]>>])

\* Ball.bounce_vertical.
BounceVertical(b) == ClampSpeed([b EXCEPT !.vel = <<b.vel[1], -b.vel[2]>>])

-----------------------------------------------------------------------------
(* Brick: a record [rect, strength, points].                               *)

Brick(rect, strength, points) ==
    [rect |-> rect, strength |-> strength, points |-> points]

\* Mutant of HitDestroys: destroyed is reported only below zero.
HitDestroysBelowZero(brick) == brick.strength - 1 < 0

\* Brick.hit: the brick after the hit; HitDestroys is the value hit() returns.
Hit(brick) == [brick EXCEPT !.strength = brick.strength - 1]

HitDestroys(brick) == Hit(brick).strength <= 0

\* Brick.hit of sprites/brick.py and game.py: kill() takes the brick out of
\* its groups; the value returned is whether it was destroyed.
SpriteHit(brick) ==
    [brick EXCEPT !.strength = brick.strength - 1,
                  !.alive = brick.strength - 1 > 0]

SpriteHitDestroys(brick) == brick.strength - 1 <= 0

\* Ball.update of sprites/ball.py, lines 44-53: the walls.  The velocity is
\* a list of floats and the reflection multiplies one of them by -1.
SpriteWallSides(b) ==
    IF Left(b.rect) <= 0
    THEN [b EXCEPT !.rect = SetLeft(b.rect, 0), !.vel = <<-b.vel[1], b.vel[2]>>]
    ELSE IF Right(b.rect) >= WindowWidth
    THEN [b EXCEPT !.rect = SetRight(b.rect, WindowWidth),
                   !.vel = <<-b.vel[1], b.vel[2]>>]
    ELSE b

SpriteWallTop(b) ==
    IF Top(b.rect) <= 0
    THEN [b EXCEPT !.rect = SetTop(b.rect, 0), !.vel = <<b.vel[1], -b.vel[2]>>]
    ELSE b

\* Ball.launch of sprites/ball.py with random.randint(30, 150) = deg: the
\* velocity is speed * (cos, -sin) of the angle, and cos(a) = sin(90 - a),
\* sin(a) = cos(90 - a) bring the angle into the range of the series.
SpriteLaunch(b, deg) ==
    IF b.launched THEN b
    ELSE [b EXCEPT
            !.launched = TRUE,
            !.vel = <<RoundDiv(BallSpeed * SinFixed(Radians(90 - deg, 1)), TrigScale),
                      -RoundDiv(BallSpeed * CosFixed(Radians(90 - deg, 1)), TrigScale)>>]

\* Ball.bounce_off_paddle of sprites/ball.py and game.py: the velocity keeps
\* the magnitude it has (the ball speed when it has none).
SpriteBounceOffPaddle(b, prect) ==
    LET num   == Max2(-prect.w, Min2(prect.w, 2 * (CenterX(b.rect) - CenterX(prect))))
        rad   == Radians(SpriteMaxAngle * num, prect.w)
        speed == IF Hypot(b.vel) = 0 THEN BallSpeed ELSE Hypot(b.vel)
    IN  [b EXCEPT !.vel = <<RoundDiv(speed * SinFixed(rad), TrigScale),
                            -RoundDiv(speed * CosFixed(rad), TrigScale)>>,
                  !.rect = SetBottom(b.rect, Top(prect) - BounceGap)]

-----------------------------------------------------------------------------
(* Level.  A configuration is a record of the GameConfig fields the level  *)
(* reads; a layout is a sequence of descriptors [x, y, width, height,      *)
(* strength].                                                              *)

Config ==
    [window_width |-> WindowWidth, brick_rows |-> BrickRows,
     brick_cols |-> BrickCols, brick_height |-> BrickHeight,
     brick_padding |-> BrickPadding, brick_top_offset |-> BrickTopOffset,
     brick_strength |-> BrickStrength]

\* Level._build_bricks: brick_width.
BrickWidth(cfg) ==
    FloorDiv((cfg.window_width - cfg.brick_padding * 2)
                 - (cfg.brick_cols - 1) * cfg.brick_padding,
             cfg.brick_cols)

\* Mutant of CellBrick: the bonus grows with the row index.
CellBrickBonusDown(cfg, row, col) ==
    LET x == cfg.brick_padding + col * (BrickWidth(cfg) + cfg.brick_padding)
        y == cfg.brick_top_offset + row * (cfg.brick_height + cfg.brick_padding)
        vertical_bonus == row
        strength == Max2(1, cfg.brick_strength + vertical_bonus)
    IN  Brick(Rect(x, y, BrickWidth(cfg), cfg.brick_height), strength,
              PointsPerStrength * strength)

\* Level._build_bricks: the brick of cell (row, col).
CellBrick(cfg, row, col) ==
    LET x == cfg.brick_padding + col * (BrickWidth(cfg) + cfg.brick_padding)
        y == cfg.brick_top_offset + row * (cfg.brick_height + cfg.brick_padding)
        vertical_bonus == cfg.brick_rows - row - 1
        strength == Max2(1, cfg.brick_strength + vertical_bonus)
    IN  Brick(Rect(x, y, BrickWidth(cfg), cfg.brick_height), strength,
              PointsPerStrength * strength)

\* Mutant of BuildCols: the loop stops one column early.
RECURSIVE BuildColsShort(_, _, _, _)
BuildColsShort(cfg, row, col, acc) ==
    IF col >= cfg.brick_cols - 1 THEN acc
    ELSE BuildColsShort(cfg, row, col + 1, Append(acc, CellBrick(cfg, row, col)))

\* The inner loop, for col in range(brick_cols), from col on.
RECURSIVE BuildCols(_, _, _, _)
BuildCols(cfg, row, col, acc) ==
    IF col >= cfg.brick_cols THEN acc
    ELSE BuildCols(cfg, row, col + 1, Append(acc, CellBrick(cfg, row, col)))

\* The outer loop, for row in range(brick_rows), from row on.
RECURSIVE BuildRows(_, _, _)
BuildRows(cfg, row, acc) ==
    IF row >= cfg.brick_rows THEN acc
    ELSE BuildRows(cfg, row + 1, BuildCols(cfg, row, 0, acc))

\* Level._build_bricks.
BuildBricks(cfg) == BuildRows(cfg, 0, <<>>)

\* Level._build_from_layout: the brick of one descriptor.
LayoutBrick(item) ==
    LET strength == Max2(1, item.strength)
    IN  Brick(Rect(item.x, item.y, item.width, item.height), strength,
              PointsPerStrength * strength)

\* Level._build_from_layout.
RECURSIVE BuildFromLayout(_, _)
BuildFromLayout(layout, acc) ==
    IF layout = <<>> THEN acc
    ELSE BuildFromLayout(Tail(layout), Append(acc, LayoutBrick(Head(layout))))

\* Level.__init__: "if layout" is false for None and for an empty list.
LevelBricks(cfg, layout) ==
    IF layout # <<>> THEN BuildFromLayout(layout, <<>>) ELSE BuildBricks(cfg)

\* Game.create_level of game.py: the strength of the cell (row, col) is
\* random.randint(min, max); the draws are those of the generator state seed.
GameCellBrick(cfg, row, col, seed) ==
    LET x == cfg.brick_padding + col * (BrickWidth(cfg) + cfg.brick_padding)
        y == cfg.brick_top_offset + row * (cfg.brick_height + cfg.brick_padding)
        strength == cfg.strength_min
                    + ((seed + row * cfg.brick_cols + col)
                       % (cfg.strength_max - cfg.strength_min + 1))
    IN  [rect |-> Rect(x, y, BrickWidth(cfg), cfg.brick_height),
         strength |-> strength, alive |-> TRUE]

RECURSIVE GameBuildCols(_, _, _, _, _)
GameBuildCols(cfg, row, col, seed, acc) ==
    IF col >= cfg.brick_cols THEN acc
    ELSE GameBuildCols(cfg, row, col + 1, seed,
                       Append(acc, GameCellBrick(cfg, row, col, seed)))

RECURSIVE GameCreateLevel(_, _, _, _)
GameCreateLevel(cfg, row, seed, acc) ==
    IF row >= cfg.brick_rows THEN acc
    ELSE GameCreateLevel(cfg, row + 1, seed, GameBuildCols(cfg, row, 0, seed, acc))

-----------------------------------------------------------------------------
(* The launcher, main.py.  A density is counted in hundredths, and so are  *)
(* the values of random.random(), which lie in 0 .. 99.                    *)

\* generate_level_layout: density = max(0.0, min(1.0, density)).
ClampDensity(density) == Max2(0, Min2(100, density))

\* The k-th value random.random() returns from the generator state seed.
RandomDraw(seed, k) == (seed * 37 + k * 61) % 100

\* generate_level_layout: the descriptor of cell (row, col).
LayoutCell(cfg, row, col) ==
    LET vertical_bonus == cfg.brick_rows - row - 1
    IN  [x |-> cfg.brick_padding + col * (BrickWidth(cfg) + cfg.brick_padding),
         y |-> cfg.brick_top_offset + row * (cfg.brick_height + cfg.brick_padding),
         width |-> BrickWidth(cfg), height |-> cfg.brick_height,
         strength |-> Max2(1, cfg.brick_strength + vertical_bonus)]

\* generate_level_layout: the two loops from cell k on, in row-major order;
\* a cell is skipped when its draw exceeds the density.
RECURSIVE GenerateCells(_, _, _, _, _)
GenerateCells(cfg, density, seed, k, acc) ==
    IF k >= cfg.brick_rows * cfg.brick_cols THEN acc
    ELSE GenerateCells(cfg, density, seed, k + 1,
             IF RandomDraw(seed, k) > density THEN acc
             ELSE Append(acc, LayoutCell(cfg, k \div cfg.brick_cols,
                                         k % cfg.brick_cols)))

\* generate_level_layout(config, density, difficulty).
GenerateLevelLayout(cfg, density, seed) ==
    GenerateCells(cfg, ClampDensity(density), seed, 0, <<>>)

\* A level file: whether it exists, whether it is JSON, whether the JSON
\* has a "bricks" list, and the items of that list.  An item gives for each
\* key a record [kind, val]: kind "absent" when the key is missing, "bad" for
\* a value int() (or tuple(), for the colour) rejects, else "ok" and the value.
Absent == [kind |-> "absent", val |-> 0]

Bad == [kind |-> "bad", val |-> 0]

Ok(v) == [kind |-> "ok", val |-> v]

NumericKeys == {"x", "y", "width", "height", "strength"}

\* load_level_layout, the try block: the exception one item raises, if any.
ItemRaises(item) ==
    IF \E k \in NumericKeys : item[k] = Absent THEN "KeyError"
    ELSE IF \E k \in NumericKeys : item[k] = Bad THEN "ValueError"
    ELSE IF item.color = Bad THEN "TypeError"
    ELSE "none"

\* load_level_layout: the descriptor appended for a valid item;
\* item.get("color", (255, 255, 255)) supplies white for a missing colour.
Descriptor(item) ==
    [x |-> item.x.val, y |-> item.y.val, width |-> item.width.val,
     height |-> item.height.val, strength |-> item.strength.val,
     color |-> IF item.color = Absent THEN "white" ELSE "given"]

\* load_level_layout, the loop: the exception raised ("none": the list is
\* returned) and the list returned.
RECURSIVE LoadItems(_, _)
LoadItems(items, acc) ==
    IF items = <<>> THEN [raised |-> "none", bricks |-> acc]
    ELSE IF ItemRaises(Head(items)) # "none"
    THEN [raised |-> "ValueError", bricks |-> <<>>]
    ELSE LoadItems(Tail(items), Append(acc, Descriptor(Head(items))))

\* load_level_layout(path).
LoadLevelLayout(file) ==
    IF ~file.exists THEN [raised |-> "FileNotFoundError", bricks |-> <<>>]
    ELSE IF ~file.parses THEN [raised |-> "JSONDecodeError", bricks |-> <<>>]
    ELSE IF ~file.has_bricks THEN [raised |-> "ValueError", bricks |-> <<>>]
    ELSE LoadItems(file.items, <<>>)

\* GameConfig.load(path, difficulty) for a config file: whether it exists,
\* whether it is JSON, the key it lacks ("none": it has them all), the
\* difficulty keys it defines and the field that holds an invalid value
\* ("none": all are valid).  The values are stored as they are read.
GameConfigLoad(file, difficulty) ==
    IF ~file.exists THEN [raised |-> "FileNotFoundError", invalid |-> "none"]
    ELSE IF ~file.parses THEN [raised |-> "JSONDecodeError", invalid |-> "none"]
    ELSE IF file.missing \in {"game", "window", "paddle", "ball", "bricks",
                              "difficulty"}
    THEN [raised |-> "KeyError", invalid |-> "none"]
    ELSE IF difficulty \notin file.difficulties
    THEN [raised |-> "ValueError", invalid |-> "none"]
    ELSE IF file.missing # "none" THEN [raised |-> "KeyError", invalid |-> "none"]
    ELSE [raised |-> "none", invalid |-> file.invalid]

\* What main() leaves behind: the exit status of the process, whether the
\* failure was written to stderr, the exception that left main() uncaught,
\* whether the engine was constructed and run, whether a level was generated
\* and saved, and the layout the engine was given (<<>>: None).
MainResult(exit, reported, uncaught, engine, generated, layout) ==
    [exit |-> exit, reported |-> reported, uncaught |-> uncaught,
     engine |-> engine, generated |-> generated, layout |-> layout]

\* main(), lines 135-149: the level file, then the engine.
MainLevel(args) ==
    IF ~args.level_file.given
    THEN MainResult(0, FALSE, "none", TRUE, FALSE, <<>>)
    ELSE LET l == LoadLevelLayout(args.level_file)
         IN  IF l.raised \in {"FileNotFoundError", "ValueError", "JSONDecodeError"}
             THEN MainResult(1, TRUE, "none", FALSE, FALSE, <<>>)
             ELSE MainResult(0, FALSE, "none", TRUE, FALSE, l.bricks)

\* main(): an exception main() does not catch ends the process with a
\* traceback on stderr and exit status 1.
Main(args) ==
    LET c == GameConfigLoad(args.config, args.difficulty)
    IN  IF c.raised \in {"FileNotFoundError", "ValueError", "JSONDecodeError"}
        THEN MainResult(1, TRUE, "none", FALSE, FALSE, <<>>)
        ELSE IF c.raised # "none"
        THEN MainResult(1, TRUE, c.raised, FALSE, FALSE, <<>>)
        ELSE IF args.generate_level
        THEN MainResult(0, FALSE, "none", FALSE, TRUE, <<>>)
        ELSE MainLevel(args)

-----------------------------------------------------------------------------
(* GameEngine.                                                             *)

NoEvent ==
    [kind |-> "init", key |-> "", mode |-> "", floor |-> FALSE,
     wallX |-> FALSE, wallTop |-> FALSE, paddleHit |-> FALSE, brickHit |-> 0,
     destroyed |-> FALSE, overBrick |-> 0]

NoProbe == [op |-> "none"]

\* GameEngine.__init__ with the given level layout.
EngineInit(layout) ==
    /\ custom_layout = layout
    /\ state = "MENU"
    /\ paddle = PaddleInit
    /\ ball = BallInit
    /\ bricks = LevelBricks(Config, layout)
    /\ score = 0
    /\ lives = InitialLives
    /\ running = TRUE
    /\ victory = FALSE
    /\ pc = "loop"
    /\ ev = NoEvent

\* Mutant of BounceFromPaddle: the ball is left where it met the paddle.
BounceFromPaddleInPlace(b, prect) ==
    LET num   == Max2(-prect.w, Min2(prect.w, 2 * (CenterX(b.rect) - CenterX(prect))))
        rad   == Radians(MaxAngle * num, prect.w)
        vx    == RoundDiv(BallSpeed * SinFixed(rad), TrigScale)
        vy    == -Abs(RoundDiv(BallSpeed * CosFixed(rad), TrigScale))
    IN  ClampSpeed([b EXCEPT !.vel = <<vx, vy>>])

\* Mutant of BounceFromPaddle: the offset is taken between the left edges.
BounceFromPaddleLeftEdges(b, prect) ==
    LET num   == Max2(-prect.w, Min2(prect.w, 2 * (Left(b.rect) - Left(prect))))
        rad   == Radians(MaxAngle * num, prect.w)
        vx    == RoundDiv(BallSpeed * SinFixed(rad), TrigScale)
        vy    == -Abs(RoundDiv(BallSpeed * CosFixed(rad), TrigScale))
        b1    == ClampSpeed([b EXCEPT !.vel = <<vx, vy>>])
    IN  SyncPosition([b1 EXCEPT !.rect = SetBottom(b1.rect, Top(prect) - BounceGap)])

\* GameEngine._bounce_from_paddle.
BounceFromPaddle(b, prect) ==
    LET num   == Max2(-prect.w, Min2(prect.w, 2 * (CenterX(b.rect) - CenterX(prect))))
        rad   == Radians(MaxAngle * num, prect.w)
        vx    == RoundDiv(BallSpeed * SinFixed(rad), TrigScale)
        vy    == -Abs(RoundDiv(BallSpeed * CosFixed(rad), TrigScale))
        b1    == ClampSpeed([b EXCEPT !.vel = <<vx, vy>>])
    IN  SyncPosition([b1 EXCEPT !.rect = SetBottom(b1.rect, Top(prect) - BounceGap)])

\* Mutant of ResolveBrick: the ball always leaves through the top or the
\* bottom of the brick.
ResolveBrickVertical(b, brect) ==
    LET overlap_top    == Bottom(b.rect) - Top(brect)
        overlap_bottom == Bottom(brect) - Top(b.rect)
        b1 == BounceVertical(
                  IF overlap_top <= overlap_bottom
                  THEN [b EXCEPT !.rect = SetBottom(b.rect, Top(brect) - BounceGap)]
                  ELSE [b EXCEPT !.rect = SetTop(b.rect, Bottom(brect) + BounceGap)])
    IN  SyncPosition(b1)

\* GameEngine._handle_brick_collisions: the resolution against one brick.
ResolveBrick(b, brect) ==
    LET overlap_left   == Right(b.rect) - Left(brect)
        overlap_right  == Right(brect) - Left(b.rect)
        overlap_top    == Bottom(b.rect) - Top(brect)
        overlap_bottom == Bottom(brect) - Top(b.rect)
        min_overlap    == Min2(Min2(overlap_left, overlap_right),
                               Min2(overlap_top, overlap_bottom))
        b1 == IF min_overlap = overlap_left \/ min_overlap = overlap_right
              THEN BounceHorizontal(
                       IF min_overlap = overlap_left
                       THEN [b EXCEPT !.rect = SetRight(b.rect, Left(brect) - BounceGap)]
                       ELSE [b EXCEPT !.rect = SetLeft(b.rect, Right(brect) + BounceGap)])
              ELSE BounceVertical(
                       IF min_overlap = overlap_top
                       THEN [b EXCEPT !.rect = SetBottom(b.rect, Top(brect) - BounceGap)]
                       ELSE [b EXCEPT !.rect = SetTop(b.rect, Bottom(brect) + BounceGap)])
    IN  SyncPosition(b1)

\* The index of the first brick of the list the ball's rect intersects, or 0.
FirstHit(b, bs) ==
    IF \E i \in 1 .. Len(bs) : ColliderRect(b.rect, bs[i].rect)
    THEN CHOOSE i \in 1 .. Len(bs) :
             /\ ColliderRect(b.rect, bs[i].rect)
             /\ \A j \in 1 .. i - 1 : ~ColliderRect(b.rect, bs[j].rect)
    ELSE 0

\* The list bs without its i-th element (list.remove of a brick at index i).
RemoveAt(bs, i) == [k \in 1 .. Len(bs) - 1 |-> IF k < i THEN bs[k] ELSE bs[k + 1]]

\* Mutant of HitBrick: a destroyed brick scores but stays in the list.
HitBrickKeepsBrick(b, bs, sc, i) ==
    IF i = 0
    THEN [ball |-> b, bricks |-> bs, score |-> sc, hit |-> 0, destroyed |-> FALSE]
    ELSE IF HitDestroys(bs[i])
    THEN [ball |-> ResolveBrick(b, bs[i].rect),
          bricks |-> [bs EXCEPT ![i] = Hit(bs[i])],
          score |-> sc + bs[i].points, hit |-> i, destroyed |-> TRUE]
    ELSE [ball |-> ResolveBrick(b, bs[i].rect),
          bricks |-> [bs EXCEPT ![i] = Hit(bs[i])],
          score |-> sc, hit |-> i, destroyed |-> FALSE]

\* Mutant of HitBrick: a destroyed brick scores twice its points.
HitBrickDoublePoints(b, bs, sc, i) ==
    IF i = 0
    THEN [ball |-> b, bricks |-> bs, score |-> sc, hit |-> 0, destroyed |-> FALSE]
    ELSE IF HitDestroys(bs[i])
    THEN [ball |-> ResolveBrick(b, bs[i].rect), bricks |-> RemoveAt(bs, i),
          score |-> sc + 2 * bs[i].points, hit |-> i, destroyed |-> TRUE]
    ELSE [ball |-> ResolveBrick(b, bs[i].rect),
          bricks |-> [bs EXCEPT ![i] = Hit(bs[i])],
          score |-> sc, hit |-> i, destroyed |-> FALSE]

\* GameEngine._handle_brick_collisions: ball, bricks and score after it, and
\* which brick was hit (0: none) and whether it was destroyed.
HitBrick(b, bs, sc, i) ==
    IF i = 0
    THEN [ball |-> b, bricks |-> bs, score |-> sc, hit |-> 0, destroyed |-> FALSE]
    ELSE IF HitDestroys(bs[i])
    THEN [ball |-> ResolveBrick(b, bs[i].rect), bricks |-> RemoveAt(bs, i),
          score |-> sc + bs[i].points, hit |-> i, destroyed |-> TRUE]
    ELSE [ball |-> ResolveBrick(b, bs[i].rect),
          bricks |-> [bs EXCEPT ![i] = Hit(bs[i])],
          score |-> sc, hit |-> i, destroyed |-> FALSE]

\* Mutant of HandleBrickCollisions: the scan goes on after the first
\* colliding brick and hits the last colliding brick as well.
HandleBrickCollisionsNoBreak(b, bs, sc) ==
    LET first == HitBrick(b, bs, sc, FirstHit(b, bs))
        last  == IF \E i \in 1 .. Len(first.bricks) :
                        ColliderRect(b.rect, first.bricks[i].rect)
                 THEN CHOOSE i \in 1 .. Len(first.bricks) :
                          /\ ColliderRect(b.rect, first.bricks[i].rect)
                          /\ \A j \in i + 1 .. Len(first.bricks) :
                                 ~ColliderRect(b.rect, first.bricks[j].rect)
                 ELSE 0
    IN  IF first.hit = 0 \/ last = 0 THEN first
        ELSE [HitBrick(first.ball, first.bricks, first.score, last)
                 EXCEPT !.hit = first.hit]

HandleBrickCollisions(b, bs, sc) == HitBrick(b, bs, sc, FirstHit(b, bs))

\* Mutant of WallSides: the velocity is reflected and the rect is left where
\* it is, as Ball.update of game.py does.
WallSidesNoClamp(b) ==
    IF Left(b.rect) <= 0 \/ Right(b.rect) >= WindowWidth
    THEN BounceHorizontal(b)
    ELSE b

\* _update_gameplay, lines 374-380: the left and right walls.
WallSides(b) ==
    IF Left(b.rect) <= 0 \/ Right(b.rect) >= WindowWidth
    THEN BounceHorizontal(SyncPosition(
             IF Left(b.rect) <= 0
             THEN [b EXCEPT !.rect = SetLeft(b.rect, 0)]
             ELSE [b EXCEPT !.rect = SetRight(b.rect, WindowWidth)]))
    ELSE b

\* _update_gameplay, lines 381-384: the top wall.
WallTop(b) ==
    IF Top(b.rect) <= 0
    THEN BounceVertical(SyncPosition([b EXCEPT !.rect = SetTop(b.rect, 0)]))
    ELSE b

\* Mutant of LoseLife: a lost ball costs two lives.
LoseLifeTwice(st, lv, b, prect) ==
    IF lv - 2 <= 0
    THEN [state |-> "GAME_OVER", lives |-> lv - 2, ball |-> b]
    ELSE [state |-> st, lives |-> lv - 2, ball |-> BallReset(b, prect)]

\* Mutant of LoseLife: the game ends only when lives falls below zero.
LoseLifeOffByOne(st, lv, b, prect) ==
    IF lv - 1 < 0
    THEN [state |-> "GAME_OVER", lives |-> lv - 1, ball |-> b]
    ELSE [state |-> st, lives |-> lv - 1, ball |-> BallReset(b, prect)]

\* GameEngine._lose_life: state, lives and ball after it.
LoseLife(st, lv, b, prect) ==
    IF lv - 1 <= 0
    THEN [state |-> "GAME_OVER", lives |-> lv - 1, ball |-> b]
    ELSE [state |-> st, lives |-> lv - 1, ball |-> BallReset(b, prect)]

\* _update_gameplay, lines 361-372: the paddle and the ball after their
\* updates.
MoveStage(dt, left, right) ==
    LET direction == (IF left THEN -1 ELSE 0) + (IF right THEN 1 ELSE 0)
        p1 == PaddleUpdate(paddle, dt, direction, WindowWidth)
    IN  [paddle |-> p1,
         ball |-> BallUpdate(IF ~ball.launched THEN StickToPaddle(ball, p1)
                             ELSE ball, dt)]

\* _update_gameplay, lines 374-384: the ball after the walls, and which of
\* them it touched.
WallStage(m) ==
    LET b3 == WallSides(m.ball)
    IN  [paddle |-> m.paddle, ball |-> WallTop(b3),
         wallX |-> Left(m.ball.rect) <= 0 \/ Right(m.ball.rect) >= WindowWidth,
         wallTop |-> Top(b3.rect) <= 0]

\* Mutant of FinishFrame: an empty level sets the victory flag and the
\* engine goes on playing.
FinishFrameKeepsPlaying(w, onPaddle, col) ==
    [state |-> state,
     lives |-> lives,
     victory |-> IF col.bricks = <<>> THEN TRUE ELSE victory,
     paddle |-> w.paddle, ball |-> col.ball, bricks |-> col.bricks,
     score |-> col.score,
     ev |-> [kind |-> "frame", key |-> "", mode |-> "PLAYING", floor |-> FALSE,
             wallX |-> w.wallX, wallTop |-> w.wallTop, paddleHit |-> onPaddle,
             brickHit |-> col.hit, destroyed |-> col.destroyed,
             overBrick |-> col.hit]]

\* Mutant of FinishFrame: the victory check reads the bricks as they were
\* before this frame's collision.
FinishFrameStaleCheck(w, onPaddle, col) ==
    [state |-> IF bricks = <<>> THEN "GAME_OVER" ELSE state,
     lives |-> lives,
     victory |-> IF bricks = <<>> THEN TRUE ELSE victory,
     paddle |-> w.paddle, ball |-> col.ball, bricks |-> col.bricks,
     score |-> col.score,
     ev |-> [kind |-> "frame", key |-> "", mode |-> "PLAYING", floor |-> FALSE,
             wallX |-> w.wallX, wallTop |-> w.wallTop, paddleHit |-> onPaddle,
             brickHit |-> col.hit, destroyed |-> col.destroyed,
             overBrick |-> col.hit]]

\* _update_gameplay, lines 392-396: the engine after a frame that did not
\* lose the ball, given the outcome col of _handle_brick_collisions.
FinishFrame(w, onPaddle, col) ==
    [state |-> IF col.bricks = <<>> THEN "GAME_OVER" ELSE state,
     lives |-> lives,
     victory |-> IF col.bricks = <<>> THEN TRUE ELSE victory,
     paddle |-> w.paddle, ball |-> col.ball, bricks |-> col.bricks,
     score |-> col.score,
     ev |-> [kind |-> "frame", key |-> "", mode |-> "PLAYING", floor |-> FALSE,
             wallX |-> w.wallX, wallTop |-> w.wallTop, paddleHit |-> onPaddle,
             brickHit |-> col.hit, destroyed |-> col.destroyed,
             overBrick |-> col.hit]]

\* _update_gameplay, lines 385-387: the engine after a frame that lost the
\* ball, given the outcome lost of _lose_life.
LoseFrame(w, lost) ==
    [state |-> lost.state, lives |-> lost.lives, victory |-> victory,
     paddle |-> w.paddle, ball |-> lost.ball, bricks |-> bricks,
     score |-> score,
     ev |-> [kind |-> "frame", key |-> "", mode |-> "PLAYING", floor |-> TRUE,
             wallX |-> w.wallX, wallTop |-> w.wallTop, paddleHit |-> FALSE,
             brickHit |-> 0, destroyed |-> FALSE,
             overBrick |-> FirstHit(w.ball, bricks)]]

\* _update_gameplay, lines 385-396, after the walls: the floor check returns
\* before the paddle, the bricks and the victory check are looked at.
ResolveStage(w) ==
    IF Bottom(w.ball.rect) >= WindowHeight
    THEN LoseFrame(w, LoseLife(state, lives, w.ball, w.paddle))
    ELSE IF ColliderRect(w.ball.rect, w.paddle) /\ w.ball.vel[2] > 0
    THEN FinishFrame(w, TRUE,
             HandleBrickCollisions(BounceFromPaddle(w.ball, w.paddle), bricks, score))
    ELSE FinishFrame(w, FALSE, HandleBrickCollisions(w.ball, bricks, score))

\* GameEngine._update_gameplay(dt) with the held keys left and right: the
\* engine after the frame, and what the frame did.
UpdateGameplay(dt, left, right) ==
    ResolveStage(WallStage(MoveStage(dt, left, right)))

\* One iteration of GameEngine.run after its events: the update of the
\* current state; the loop ends when running is false.
Frame ==
    /\ pc = "loop"
    /\ \E dt \in 1 .. MaxDt, left \in BOOLEAN, right \in BOOLEAN :
          IF state = "PLAYING"
          THEN \E g \in {UpdateGameplay(dt, left, right)} :
                   /\ state' = g.state
                   /\ lives' = g.lives
                   /\ victory' = g.victory
                   /\ paddle' = g.paddle
                   /\ ball' = g.ball
                   /\ bricks' = g.bricks
                   /\ score' = g.score
                   /\ ev' = g.ev
          ELSE \* _update_menu and _update_game_over
               /\ ball' = BallReset(ball, paddle)
               /\ ev' = [NoEvent EXCEPT !.kind = "frame", !.mode = state]
               /\ UNCHANGED <<state, lives, victory, paddle, bricks, score>>
    /\ pc' = IF running THEN "loop" ELSE "done"
    /\ UNCHANGED <<running, custom_layout, probe>>

\* GameEngine._reset_game: the engine fields it assigns.
ResetGame ==
    [state |-> "MENU", paddle |-> PaddleInit,
     ball |-> BallReset(BallInit, PaddleInit),
     bricks |-> LevelBricks(Config, custom_layout),
     score |-> 0, lives |-> InitialLives, victory |-> FALSE]

Keys == {"ESCAPE", "SPACE", "RETURN", "r", "other"}

\* Mutant of HandleKey: the restart key is honoured in every state.
HandleKeyRestartAnywhere(key) ==
    LET run1   == IF key = "ESCAPE" THEN FALSE ELSE running
        state1 == IF state = "MENU" /\ key \in {"SPACE", "RETURN"}
                  THEN "PLAYING" ELSE state
        ball1  == IF state1 = "PLAYING" /\ key = "SPACE" THEN Launch(ball) ELSE ball
        same   == [state |-> state1, paddle |-> paddle, ball |-> ball1,
                   bricks |-> bricks, score |-> score, lives |-> lives,
                   victory |-> victory]
        e      == IF key = "r" THEN ResetGame ELSE same
    IN  e @@ [running |-> run1]

\* Mutant of HandleKey: the escape key also returns the engine to the menu.
HandleKeyEscapeToMenu(key) ==
    LET run1   == IF key = "ESCAPE" THEN FALSE ELSE running
        state0 == IF key = "ESCAPE" THEN "MENU" ELSE state
        state1 == IF state0 = "MENU" /\ key \in {"SPACE", "RETURN"}
                  THEN "PLAYING" ELSE state0
        ball1  == IF state1 = "PLAYING" /\ key = "SPACE" THEN Launch(ball) ELSE ball
        same   == [state |-> state1, paddle |-> paddle, ball |-> ball1,
                   bricks |-> bricks, score |-> score, lives |-> lives,
                   victory |-> victory]
        e      == IF state1 = "GAME_OVER" /\ key = "r" THEN ResetGame ELSE same
    IN  e @@ [running |-> run1]

\* GameEngine._handle_events for one KEYDOWN event: the four ifs in turn.
HandleKey(key) ==
    LET run1   == IF key = "ESCAPE" THEN FALSE ELSE running
        state1 == IF state = "MENU" /\ key \in {"SPACE", "RETURN"}
                  THEN "PLAYING" ELSE state
        ball1  == IF state1 = "PLAYING" /\ key = "SPACE" THEN Launch(ball) ELSE ball
        same   == [state |-> state1, paddle |-> paddle, ball |-> ball1,
                   bricks |-> bricks, score |-> score, lives |-> lives,
                   victory |-> victory]
        e      == IF state1 = "GAME_OVER" /\ key = "r" THEN ResetGame ELSE same
    IN  e @@ [running |-> run1]

KeyDown(key) ==
    /\ pc = "loop"
    /\ \E h \in {HandleKey(key)} :
           /\ running' = h.running
           /\ state' = h.state
           /\ paddle' = h.paddle
           /\ ball' = h.ball
           /\ bricks' = h.bricks
           /\ score' = h.score
           /\ lives' = h.lives
           /\ victory' = h.victory
    /\ ev' = [NoEvent EXCEPT !.kind = "key", !.key = key, !.mode = state]
    /\ UNCHANGED <<pc, custom_layout, probe>>

\* GameEngine._handle_events for one QUIT event.
Quit ==
    /\ pc = "loop"
    /\ running' = FALSE
    /\ ev' = [NoEvent EXCEPT !.kind = "quit", !.mode = state]
    /\ UNCHANGED <<pc, state, paddle, ball, bricks, score, lives, victory,
                   custom_layout, probe>>

Init == EngineInit(<<>>) /\ probe = NoProbe

Next ==
    \/ Frame
    \/ \E key \in Keys : KeyDown(key)
    \/ Quit

Spec == Init /\ [][Next]_vars

\* The engine constructed with a level layout: a brick along the floor and
\* a brick under the top wall.
FloorLayout ==
    << [x |-> 0, y |-> WindowHeight - 1, width |-> WindowWidth, height |-> 1,
        strength |-> 1],
       [x |-> 1, y |-> 1, width |-> 4, height |-> 2, strength |-> 2] >>

InitLayout == EngineInit(FloorLayout) /\ probe = NoProbe

SpecLayout == InitLayout /\ [][Next]_vars

-----------------------------------------------------------------------------
(* The operations on their own.  SpecUnit draws the inputs of one          *)
(* operation in its initial state and applies the operation to them; the   *)
(* engine stays as constructed.                                            *)

MaxProbe == 2       \* rects start up to MaxProbe pixels outside the window
MaxProbeDt == 4     \* the paddle is updated with dt in 0 .. MaxProbeDt
MaxHits == 5        \* bricks are created with strength 1 .. MaxHits
MaxRows == 3        \* levels are built with 1 .. MaxRows rows
MaxCols == 4        \* and 1 .. MaxCols columns
MaxSeed == 1        \* generator states 0 .. MaxSeed of Game.create_level
StrengthMin == 1    \* BRICK_STRENGTH_MIN
StrengthMax == 3    \* BRICK_STRENGTH_MAX
MaxItems == 2       \* a level file lists 0 .. MaxItems items

\* The velocities a ball is given: the speed in a spread of directions, the
\* launch velocity, and (3/5, -4/5) of the speed where that is whole.
ProbeVelocities ==
    { NormalizeTimes(<<dx, dy>>, BallSpeed) :
          <<dx, dy>> \in ((-2 .. 2) \X (-2 .. 2)) \ {<<0, 0>>} }
    \cup {LaunchVelocity}
    \cup (IF BallSpeed % 5 = 0
          THEN {<<3 * (BallSpeed \div 5), -4 * (BallSpeed \div 5)>>}
          ELSE {})

\* A launched ball whose position is (hx, hy) half pixels.
ProbeBall(hx, hy, v) ==
    LET px == hx * (Scale \div 2)
        py == hy * (Scale \div 2)
    IN  [rect |-> Rect(Trunc(px, Scale), Trunc(py, Scale),
                       BallRadius * 2, BallRadius * 2),
         pos |-> <<px, py>>, vel |-> v, launched |-> TRUE]

InitPaddleProbe ==
    \E x \in -MaxProbe .. WindowWidth - PaddleWidth + MaxProbe,
       dt \in 0 .. MaxProbeDt, left \in BOOLEAN, right \in BOOLEAN,
       op \in {"Paddle.update", "sprites.Paddle.update"} :
        probe = [op |-> op, done |-> FALSE,
                 rect |-> Rect(x, PaddleInit.y, PaddleWidth, PaddleHeight),
                 dt |-> dt, left |-> left, right |-> right,
                 out |-> Rect(x, PaddleInit.y, PaddleWidth, PaddleHeight)]

InitBrickProbe ==
    \E n \in 1 .. MaxHits, op \in {"Brick.hit", "sprites.Brick.hit"} :
        probe = [op |-> op, done |-> FALSE, n |-> n, hits |-> 0,
                 destroyed |-> FALSE,
                 brick |-> [rect |-> Rect(0, 0, 1, 1), strength |-> n,
                            points |-> PointsPerStrength * n, alive |-> TRUE]]

\* The base strengths of a difficulty: GameConfig.load stores the number of
\* the file as it is, so it may be 0 or negative.
BaseStrengths == -2 .. BrickStrength + 1

InitLevelProbe ==
    \E rows \in 1 .. MaxRows, cols \in 1 .. MaxCols, seed \in 0 .. MaxSeed,
       base \in BaseStrengths, op \in {"Level", "Game.create_level"} :
        probe = [op |-> op, done |-> FALSE, seed |-> seed,
                 cfg |-> [Config EXCEPT !.brick_rows = rows, !.brick_cols = cols,
                                        !.brick_strength = base]
                         @@ [strength_min |-> 1, strength_max |-> MaxHits],
                 out |-> <<>>]

InitWallProbe ==
    \E hx \in -2 * MaxProbe .. 2 * (WindowWidth - 2 * BallRadius + MaxProbe),
       hy \in -2 * MaxProbe .. 2 * MaxProbe,
       v \in ProbeVelocities, op \in {"walls", "sprites.walls"} :
        probe = [op |-> op, done |-> FALSE, pre |-> ProbeBall(hx, hy, v),
                 mid |-> ProbeBall(hx, hy, v), post |-> ProbeBall(hx, hy, v)]

\* A level is generated for up to MaxRows + 1 rows, a difficulty of base
\* strength 1 .. BrickStrength + 1 and densities below, in and above [0, 1].
Densities == {-50, 0, 50, 85, 100, 150}

InitGenerateProbe ==
    \E rows \in 1 .. MaxRows + 1, cols \in 1 .. MaxCols, seed \in 0 .. MaxSeed,
       base \in 1 .. BrickStrength + 1, density \in Densities :
        probe = [op |-> "generate_level_layout", done |-> FALSE,
                 seed |-> seed, density |-> density,
                 cfg |-> [Config EXCEPT !.brick_rows = rows, !.brick_cols = cols,
                                        !.brick_strength = base]
                         @@ [strength_min |-> StrengthMin,
                             strength_max |-> StrengthMax],
                 out |-> <<>>]

\* The items of a level file: a valid one, it with one key missing or
\* holding a value of the wrong kind, and it with the strength 0, which
\* int() accepts.
GoodItem ==
    [x |-> Ok(1), y |-> Ok(1), width |-> Ok(2), height |-> Ok(2),
     strength |-> Ok(1), color |-> Ok(0)]

Items ==
    {GoodItem} \cup {[GoodItem EXCEPT ![k] = v] :
                         k \in NumericKeys \cup {"color"}, v \in {Absent, Bad}}
    \cup {[GoodItem EXCEPT !.strength = Ok(0)]}

ItemLists == UNION {[1 .. n -> Items] : n \in 0 .. MaxItems}

\* No --level-file on the command line.
NoLevelFile ==
    [given |-> FALSE, exists |-> FALSE, parses |-> FALSE, has_bricks |-> FALSE,
     items |-> <<>>]

GoodLevelFile ==
    [given |-> TRUE, exists |-> TRUE, parses |-> TRUE, has_bricks |-> TRUE, items |-> <<GoodItem>>]

LevelFiles ==
    {[GoodLevelFile EXCEPT !.exists = FALSE], [GoodLevelFile EXCEPT !.parses = FALSE],
     [GoodLevelFile EXCEPT !.has_bricks = FALSE]}
    \cup {[GoodLevelFile EXCEPT !.items = l] : l \in ItemLists}

GoodConfigFile ==
    [exists |-> TRUE, parses |-> TRUE, missing |-> "none",
     difficulties |-> {"easy", "medium"}, invalid |-> "none"]

ConfigFiles ==
    {[GoodConfigFile EXCEPT !.exists = FALSE], [GoodConfigFile EXCEPT !.parses = FALSE]}
    \cup {[GoodConfigFile EXCEPT !.missing = m, !.invalid = i] :
              m \in {"none", "difficulty", "bricks", "initial_lives", "paddle.width"},
              i \in {"none", "initial_lives"}}

\* The launcher is started on any config file with no or a valid level
\* file, or on a valid config file with any level file.
InitMainProbe ==
    \E config \in ConfigFiles, difficulty \in {"medium", "insane"},
       level_file \in LevelFiles \cup {NoLevelFile}, generate_level \in BOOLEAN :
        /\ \/ level_file \in {NoLevelFile, GoodLevelFile}
           \/ config = GoodConfigFile /\ difficulty = "medium" /\ ~generate_level
        /\ probe = [op |-> "main", done |-> FALSE,
                    args |-> [config |-> config, difficulty |-> difficulty,
                              level_file |-> level_file,
                              generate_level |-> generate_level],
                    out |-> MainResult(0, FALSE, "none", FALSE, FALSE, <<>>),
                    level |-> <<>>]

\* A row of three bricks that touch each other, of strengths 1, 2 and 1, and
\* a ball on or near them.
TouchingLayout ==
    << [x |-> 2, y |-> 2, width |-> 2, height |-> 2, strength |-> 1],
       [x |-> 4, y |-> 2, width |-> 2, height |-> 2, strength |-> 2],
       [x |-> 6, y |-> 2, width |-> 2, height |-> 2, strength |-> 1] >>

InitCollisionProbe ==
    \E hx \in 0 .. 2 * (WindowWidth - 2 * BallRadius), hy \in 0 .. 2 * (4 + MaxProbe),
       v \in ProbeVelocities :
        probe = [op |-> "_handle_brick_collisions", done |-> FALSE,
                 ball |-> ProbeBall(hx, hy, v),
                 bricks |-> LevelBricks(Config, TouchingLayout), score |-> 0,
                 out |-> [ball |-> ProbeBall(hx, hy, v),
                          bricks |-> LevelBricks(Config, TouchingLayout),
                          score |-> 0, hit |-> 0, destroyed |-> FALSE]]

\* launch() is called on a ball riding the paddle or in flight; LaunchAngles
\* are the values random.randint(30, 150) is given.
LaunchAngles == {30, 60, 90, 120, 150}

InitLaunchProbe ==
    \E launched \in BOOLEAN, v \in ProbeVelocities, deg \in LaunchAngles,
       op \in {"Ball.launch", "sprites.Ball.launch"} :
        \E b \in {IF launched
                  THEN ProbeBall(2 * BallInit.rect.x, 2 * BallInit.rect.y, v)
                  ELSE BallReset(BallInit, PaddleInit)} :
            probe = [op |-> op, done |-> FALSE, deg |-> deg,
                     pre |-> b, mid |-> b, post |-> b]

\* A falling ball that overlaps the top of the paddle, its centre d pixels
\* from the centre of the paddle.
InitBounceProbe ==
    \E d \in -(PaddleWidth \div 2 + MaxProbe) .. PaddleWidth \div 2 + MaxProbe,
       v \in {w \in ProbeVelocities : w[2] > 0},
       op \in {"bounce", "sprites.bounce"} :
        probe = [op |-> op, done |-> FALSE, paddle |-> PaddleInit,
                 pre |-> ProbeBall(2 * (CenterX(PaddleInit) + d - BallRadius),
                                   2 * (Top(PaddleInit) - 2 * BallRadius + 1), v),
                 post |-> ProbeBall(2 * (CenterX(PaddleInit) + d - BallRadius),
                                    2 * (Top(PaddleInit) - 2 * BallRadius + 1), v)]

InitUnit ==
    /\ EngineInit(<<>>)
    /\ \/ InitPaddleProbe
       \/ InitBrickProbe
       \/ InitLevelProbe
       \/ InitWallProbe
       \/ InitBounceProbe
       \/ InitGenerateProbe
       \/ InitMainProbe
       \/ InitCollisionProbe
       \/ InitLaunchProbe

\* Paddle.update is applied to the drawn rect, dt and held keys.
ApplyPaddle ==
    /\ probe.op \in {"Paddle.update", "sprites.Paddle.update"} /\ ~probe.done
    /\ probe' =
         [probe EXCEPT
            !.done = TRUE,
            !.out = IF probe.op = "Paddle.update"
                    THEN PaddleUpdate(probe.rect, probe.dt,
                             (IF probe.left THEN -1 ELSE 0)
                                 + (IF probe.right THEN 1 ELSE 0),
                             WindowWidth)
                    ELSE SpritePaddleUpdate(probe.rect, probe.dt, probe.left,
                                            probe.right, WindowWidth)]
    /\ UNCHANGED engineVars

\* hit() is called on a brick that has not been destroyed: the engine removes
\* a destroyed brick from the level, and kill() takes it out of its groups.
ApplyHit ==
    /\ probe.op \in {"Brick.hit", "sprites.Brick.hit"} /\ ~probe.destroyed
    /\ probe' =
         [probe EXCEPT
            !.done = TRUE,
            !.hits = probe.hits + 1,
            !.destroyed = IF probe.op = "Brick.hit"
                          THEN HitDestroys(probe.brick)
                          ELSE SpriteHitDestroys(probe.brick),
            !.brick = IF probe.op = "Brick.hit"
                      THEN Hit(probe.brick) ELSE SpriteHit(probe.brick)]
    /\ UNCHANGED engineVars

\* A level is built for the drawn configuration, with no layout.
ApplyLevel ==
    /\ probe.op \in {"Level", "Game.create_level"} /\ ~probe.done
    /\ probe' =
         [probe EXCEPT
            !.done = TRUE,
            !.out = IF probe.op = "Level"
                    THEN LevelBricks(probe.cfg, <<>>)
                    ELSE GameCreateLevel(probe.cfg, 0, probe.seed, <<>>)]
    /\ UNCHANGED engineVars

\* The wall checks of one frame are applied to the drawn ball.
ApplyWalls ==
    /\ probe.op \in {"walls", "sprites.walls"} /\ ~probe.done
    /\ probe' =
         [probe EXCEPT
            !.done = TRUE,
            !.mid = IF probe.op = "walls" THEN WallSides(probe.pre)
                    ELSE SpriteWallSides(probe.pre),
            !.post = IF probe.op = "walls" THEN WallTop(WallSides(probe.pre))
                     ELSE SpriteWallTop(SpriteWallSides(probe.pre))]
    /\ UNCHANGED engineVars

\* The paddle bounce is applied to the drawn ball.
ApplyBounce ==
    /\ probe.op \in {"bounce", "sprites.bounce"} /\ ~probe.done
    /\ probe' =
         [probe EXCEPT
            !.done = TRUE,
            !.post = IF probe.op = "bounce"
                     THEN BounceFromPaddle(probe.pre, probe.paddle)
                     ELSE SpriteBounceOffPaddle(probe.pre, probe.paddle)]
    /\ UNCHANGED engineVars

\* generate_level_layout is applied to the drawn configuration and density.
ApplyGenerate ==
    /\ probe.op = "generate_level_layout" /\ ~probe.done
    /\ probe' = [probe EXCEPT
                    !.done = TRUE,
                    !.out = GenerateLevelLayout(probe.cfg, probe.density, probe.seed)]
    /\ UNCHANGED engineVars

\* main() runs on the drawn command line and files; level is the list of
\* bricks of the engine it constructs (<<>> when it constructs none).
ApplyMain ==
    /\ probe.op = "main" /\ ~probe.done
    /\ \E out \in {Main(probe.args)} :
           probe' = [probe EXCEPT
                       !.done = TRUE, !.out = out,
                       !.level = IF out.engine THEN LevelBricks(Config, out.layout)
                                 ELSE <<>>]
    /\ UNCHANGED engineVars

\* _handle_brick_collisions is applied to the drawn ball and bricks.
ApplyCollisions ==
    /\ probe.op = "_handle_brick_collisions" /\ ~probe.done
    /\ probe' = [probe EXCEPT
                    !.done = TRUE,
                    !.out = HandleBrickCollisions(probe.ball, probe.bricks,
                                                  probe.score)]
    /\ UNCHANGED engineVars

\* launch() is called twice in a row on the drawn ball.
ApplyLaunch ==
    /\ probe.op \in {"Ball.launch", "sprites.Ball.launch"} /\ ~probe.done
    /\ probe' =
         [probe EXCEPT
            !.done = TRUE,
            !.mid = IF probe.op = "Ball.launch" THEN Launch(probe.pre)
                    ELSE SpriteLaunch(probe.pre, probe.deg),
            !.post = IF probe.op = "Ball.launch" THEN Launch(Launch(probe.pre))
                     ELSE SpriteLaunch(SpriteLaunch(probe.pre, probe.deg),
                                       probe.deg)]
    /\ UNCHANGED engineVars

NextUnit ==
    \/ ApplyPaddle
    \/ ApplyHit
    \/ ApplyLevel
    \/ ApplyWalls
    \/ ApplyBounce
    \/ ApplyGenerate
    \/ ApplyMain
    \/ ApplyCollisions
    \/ ApplyLaunch

SpecUnit == InitUnit /\ [][NextUnit]_vars

-----------------------------------------------------------------------------
(* The ball rides the paddle: not launched, at rest, centred on the paddle *)
(* with its bottom StickGap above the paddle's top.                        *)

StuckOn(b, prect) ==
    /\ ~b.launched
    /\ b.vel = <<0, 0>>
    /\ CenterX(b.rect) = CenterX(prect)
    /\ Bottom(b.rect) = Top(prect) - StickGap

\* The step is a PLAYING frame in which the ball reached the floor.
FloorFrame == ev'.kind = "frame" /\ ev'.mode = "PLAYING" /\ ev'.floor

\* The step handles a press of the restart key.
RestartKey == ev'.kind = "key" /\ ev'.key = "r"

\* |v| is within one quantum of s.
SpeedIs(v, s) ==
    /\ (s - 1) * (s - 1) <= v[1] * v[1] + v[2] * v[2]
    /\ v[1] * v[1] + v[2] * v[2] <= (s + 1) * (s + 1)

-----------------------------------------------------------------------------
(* C1.  A PLAYING frame in which the ball reaches the floor: with one life *)
(* left the engine goes to GAME_OVER with victory false; with more than    *)
(* one the ball is reset to STUCK on the paddle, the engine stays in       *)
(* PLAYING and lives decreases by exactly 1.                               *)
C1_FloorLosesLife ==
    [][FloorFrame =>
         /\ state = "PLAYING"
         /\ lives = 1 => state' = "GAME_OVER" /\ ~victory' /\ lives' = 0
         /\ lives > 1 => /\ state' = "PLAYING"
                         /\ lives' = lives - 1
                         /\ StuckOn(ball', paddle')]_vars

\* Both cases have happened: the last of InitialLives >= 2 lives was lost.
C1_Witness ==
    /\ InitialLives >= 2
    /\ ev.kind = "frame" /\ ev.floor
    /\ state = "GAME_OVER" /\ lives = 0 /\ ~victory

(* C2.  The live brick list is empty exactly when victory is set, and then *)
(* the engine is in GAME_OVER: victory is never set while a brick remains, *)
(* and the frame that empties the list sets victory and ends the game.     *)
C2_VictoryIffEmpty ==
    /\ victory <=> bricks = <<>>
    /\ bricks = <<>> => state = "GAME_OVER"

C2_Witness ==
    /\ victory /\ bricks = <<>> /\ state = "GAME_OVER"
    /\ ev.kind = "frame" /\ ev.destroyed

(* C3.  The engine state changes only from MENU to PLAYING on a start key  *)
(* (SPACE or RETURN), from PLAYING to GAME_OVER in a frame that sets       *)
(* victory or loses the last life, and from GAME_OVER to MENU on the       *)
(* restart key.                                                            *)
C3_StateMachine ==
    [][state' # state =>
         \/ /\ state = "MENU" /\ state' = "PLAYING"
            /\ ev'.kind = "key" /\ ev'.key \in {"SPACE", "RETURN"}
         \/ /\ state = "PLAYING" /\ state' = "GAME_OVER"
            /\ ev'.kind = "frame"
            /\ (victory' \/ (ev'.floor /\ lives' <= 0))
         \/ /\ state = "GAME_OVER" /\ state' = "MENU"
            /\ RestartKey]_vars

\* A whole cycle: a restart from GAME_OVER brought the engine back to MENU.
C3_Witness ==
    /\ ev.kind = "key" /\ ev.key = "r" /\ ev.mode = "GAME_OVER"
    /\ state = "MENU"

(* C4.  After Paddle.update, whatever the position of the paddle before   *)
(* it, the direction (or the held keys) and dt >= 0, the left edge of the  *)
(* paddle is >= 0 and its right edge is <= the window width; and so it is  *)
(* for the paddle of the engine in every state.                            *)
PaddleInWindow(r) == Left(r) >= 0 /\ Right(r) <= WindowWidth

C4_PaddleInWindow ==
    /\ PaddleInWindow(paddle)
    /\ (probe.op \in {"Paddle.update", "sprites.Paddle.update"} /\ probe.done)
           => PaddleInWindow(probe.out)

\* A paddle inside the window was moved right by more than the room it had,
\* and stopped at the right wall.
C4_Witness ==
    /\ probe.op = "Paddle.update" /\ probe.done
    /\ probe.right /\ ~probe.left /\ PaddleInWindow(probe.rect)
    /\ Right(probe.rect) < WindowWidth
    /\ Right(probe.rect) * Scale + PaddleSpeed * probe.dt > WindowWidth * Scale
    /\ Right(probe.out) = WindowWidth

(* C5.  A brick created with strength N >= 1 reports destroyed on its N-th *)
(* hit and on none of the N - 1 hits before it, and its strength is never  *)
(* negative: after k hits it is N - k.                                     *)
C5_DestroyedOnNthHit ==
    probe.op \in {"Brick.hit", "sprites.Brick.hit"} =>
        /\ probe.destroyed <=> probe.hits = probe.n
        /\ probe.brick.strength = probe.n - probe.hits
        /\ probe.brick.strength >= 0

\* A brick of strength 3 or more has taken its last hit.
C5_Witness ==
    /\ probe.op = "Brick.hit" /\ probe.n >= 3
    /\ probe.hits = probe.n /\ probe.destroyed /\ probe.brick.strength = 0

(* C6.  While the ball is launched, the magnitude of its velocity is the   *)
(* ball speed (to within one quantum), whatever walls, paddle and bricks   *)
(* it has bounced off.                                                     *)
C6_SpeedPreserved == ball.launched => SpeedIs(ball.vel, BallSpeed)

\* The ball has just bounced off the paddle, after it destroyed a brick.
C6_Witness ==
    /\ ball.launched /\ ev.kind = "frame" /\ ev.paddleHit /\ score > 0

(* C7.  A restart from GAME_OVER leaves the engine as a newly constructed  *)
(* engine is: MENU, score 0, all lives, no victory, the whole initial      *)
(* level, and the paddle and the ball where the constructor puts them.     *)
C7_RestartIsFresh ==
    [][(RestartKey /\ state = "GAME_OVER") =>
         /\ state' = "MENU"
         /\ score' = 0
         /\ lives' = InitialLives
         /\ ~victory'
         /\ bricks' = LevelBricks(Config, custom_layout)
         /\ paddle' = PaddleInit
         /\ ball' = BallInit]_vars

(* C8.  A press of the restart key in MENU or PLAYING changes nothing of   *)
(* the engine state, the score, the lives, the victory flag, the bricks,   *)
(* the paddle and the ball.                                                *)
C8_RestartOnlyInGameOver ==
    [][(RestartKey /\ state \in {"MENU", "PLAYING"}) =>
         UNCHANGED <<state, score, lives, victory, bricks, paddle, ball>>]_vars

\* The restart key was pressed during play, with the ball in flight.
C8_Witness ==
    /\ ev.kind = "key" /\ ev.key = "r" /\ ev.mode = "PLAYING"
    /\ state = "PLAYING" /\ ball.launched /\ score > 0

(* C9.  A level built without a layout for a configuration of R rows and  *)
(* C columns has exactly R * C bricks, and for every cell (row, col)       *)
(* exactly one of them is at the position of that cell.                    *)
CellPosition(cfg, row, col) ==
    <<cfg.brick_padding + col * (BrickWidth(cfg) + cfg.brick_padding),
      cfg.brick_top_offset + row * (cfg.brick_height + cfg.brick_padding)>>

C9_OneBrickPerCell ==
    (probe.op \in {"Level", "Game.create_level"} /\ probe.done) =>
        /\ Len(probe.out) = probe.cfg.brick_rows * probe.cfg.brick_cols
        /\ \A row \in 0 .. probe.cfg.brick_rows - 1,
              col \in 0 .. probe.cfg.brick_cols - 1 :
               Cardinality({i \in 1 .. Len(probe.out) :
                   <<probe.out[i].rect.x, probe.out[i].rect.y>>
                       = CellPosition(probe.cfg, row, col)}) = 1

\* A level of several rows and several columns was built.
C9_Witness ==
    /\ probe.op = "Level" /\ probe.done
    /\ probe.cfg.brick_rows >= 2 /\ probe.cfg.brick_cols >= 3
    /\ Len(probe.out) = probe.cfg.brick_rows * probe.cfg.brick_cols

(* C10.  When the ball touches the left or the right wall its rect is put  *)
(* at that wall and the horizontal component of its velocity is negated,   *)
(* the vertical one staying as it was; when it touches the top wall its    *)
(* rect is put at y = 0 and the vertical component is negated, the         *)
(* horizontal one staying as it was.  The components are those of the      *)
(* velocity before, to one quantum, and exactly those when the velocity    *)
(* before has exactly the ball speed: (3/5, -4/5) of the speed at x <= 0   *)
(* becomes (-3/5, -4/5) of the speed at x = 0.                             *)
Negated(a, b) == Abs(a + b) <= 1 /\ (a # 0 => Sign(b) = -Sign(a))

Kept(a, b) == Abs(a - b) <= 1 /\ (a # 0 => Sign(b) = Sign(a))

ExactSpeed(v) == v[1] * v[1] + v[2] * v[2] = BallSpeed * BallSpeed

ReflectedX(v, w) ==
    /\ Negated(v[1], w[1]) /\ Kept(v[2], w[2])
    /\ (ExactSpeed(v) \/ probe.op = "sprites.walls") => w = <<-v[1], v[2]>>

ReflectedY(v, w) ==
    /\ Kept(v[1], w[1]) /\ Negated(v[2], w[2])
    /\ (ExactSpeed(v) \/ probe.op = "sprites.walls") => w = <<v[1], -v[2]>>

C10_WallBounce ==
    (probe.op \in {"walls", "sprites.walls"} /\ probe.done) =>
        /\ Left(probe.pre.rect) <= 0 =>
               /\ Left(probe.mid.rect) = 0
               /\ probe.op = "walls" => probe.mid.pos[1] = 0
               /\ ReflectedX(probe.pre.vel, probe.mid.vel)
        /\ (Left(probe.pre.rect) > 0 /\ Right(probe.pre.rect) >= WindowWidth) =>
               /\ Right(probe.mid.rect) = WindowWidth
               /\ probe.op = "walls" =>
                      probe.mid.pos[1] = (WindowWidth - 2 * BallRadius) * Scale
               /\ ReflectedX(probe.pre.vel, probe.mid.vel)
        /\ Top(probe.mid.rect) <= 0 =>
               /\ Top(probe.post.rect) = 0
               /\ probe.op = "walls" => probe.post.pos[2] = 0
               /\ ReflectedY(probe.mid.vel, probe.post.vel)

\* The example: the ball was left of the left wall and below the top one
\* with velocity (3/5, -4/5) of the speed.
C10_Witness ==
    /\ probe.op = "walls" /\ probe.done
    /\ Left(probe.pre.rect) < 0 /\ Top(probe.pre.rect) > 0
    /\ 5 * probe.pre.vel[1] = 3 * BallSpeed /\ 5 * probe.pre.vel[2] = -4 * BallSpeed
    /\ 5 * probe.post.vel[1] = -3 * BallSpeed /\ 5 * probe.post.vel[2] = -4 * BallSpeed
    /\ probe.post.rect.x = 0 /\ probe.post.pos[1] = 0

(* C11.  A paddle bounce of a ball whose centre is at the centre of the    *)
(* paddle gives a velocity with horizontal component zero and vertical     *)
(* component minus the ball speed (to one quantum where the velocity       *)
(* before was the speed to one quantum, and exactly in the engine).        *)
C11_CentreBounce ==
    (/\ probe.op \in {"bounce", "sprites.bounce"} /\ probe.done
     /\ CenterX(probe.pre.rect) = CenterX(probe.paddle)) =>
        /\ probe.post.vel[1] = 0
        /\ probe.post.vel[2] < 0
        /\ Abs(probe.post.vel[2] + BallSpeed) <= 1
        /\ (probe.op = "bounce" \/ ExactSpeed(probe.pre.vel))
               => probe.post.vel[2] = -BallSpeed

\* The engine bounced a ball that fell obliquely on the centre of the paddle.
C11_Witness ==
    /\ probe.op = "bounce" /\ probe.done
    /\ CenterX(probe.pre.rect) = CenterX(probe.paddle)
    /\ probe.pre.vel[1] # 0 /\ probe.pre.vel[2] > 0
    /\ probe.post.vel = <<0, -BallSpeed>>
    /\ Bottom(probe.post.rect) = Top(probe.paddle) - BounceGap

(* C12.  A layout generated with density 1.0 or more for R rows and C     *)
(* columns has exactly R * C descriptors, and the strength of every        *)
(* descriptor lies in the configured strength range.                       *)
GeneratedFull ==
    /\ probe.op = "generate_level_layout" /\ probe.done /\ probe.density >= 100

C12_FullCount ==
    GeneratedFull => Len(probe.out) = probe.cfg.brick_rows * probe.cfg.brick_cols

C12_GeneratedLayout ==
    GeneratedFull =>
        /\ Len(probe.out) = probe.cfg.brick_rows * probe.cfg.brick_cols
        /\ \A i \in 1 .. Len(probe.out) :
               /\ probe.out[i].strength >= probe.cfg.strength_min
               /\ probe.out[i].strength <= probe.cfg.strength_max

(* C13.  When the launcher is given a level file that is missing, is not  *)
(* JSON, has no "bricks" list, or has an item that lacks one of x, y,      *)
(* width, height, strength, color or holds a value of the wrong kind in    *)
(* it, the load fails: the failure is reported, the exit status is not 0,  *)
(* the engine is not started and no level of any kind is built.            *)
LevelFileInvalid(file) ==
    \/ ~file.exists \/ ~file.parses \/ ~file.has_bricks
    \/ \E i \in 1 .. Len(file.items), k \in NumericKeys \cup {"color"} :
           file.items[i][k] \in {Absent, Bad}

MainLoadsLevel ==
    /\ probe.op = "main" /\ probe.done
    /\ probe.args.config = GoodConfigFile /\ probe.args.difficulty = "medium"
    /\ ~probe.args.generate_level /\ probe.args.level_file.given

C13_LevelLoadFatal ==
    (MainLoadsLevel /\ LevelFileInvalid(probe.args.level_file)) =>
        /\ probe.out.exit # 0 /\ probe.out.reported
        /\ ~probe.out.engine /\ probe.out.layout = <<>>

\* The part of C13 the code does keep: an item with a missing or bad number,
\* or a colour that is no sequence, fails the whole load.
C13_NumbersRequired ==
    (/\ MainLoadsLevel
     /\ \/ ~probe.args.level_file.exists \/ ~probe.args.level_file.parses
        \/ ~probe.args.level_file.has_bricks
        \/ \E i \in 1 .. Len(probe.args.level_file.items) :
               ItemRaises(probe.args.level_file.items[i]) # "none") =>
        /\ probe.out.exit # 0 /\ probe.out.reported
        /\ ~probe.out.engine /\ probe.out.layout = <<>>

(* C14.  When the config file is missing, lacks a settings field, holds an *)
(* invalid value in one, or does not define the difficulty asked for, the  *)
(* launcher reports it, exits with a status that is not 0, and neither     *)
(* constructs nor runs the engine.                                         *)
ConfigFileInvalid(file, difficulty) ==
    \/ ~file.exists \/ ~file.parses
    \/ file.missing # "none" \/ file.invalid # "none"
    \/ difficulty \notin file.difficulties

C14_ConfigErrorFatal ==
    (/\ probe.op = "main" /\ probe.done /\ ~probe.args.generate_level
     /\ ConfigFileInvalid(probe.args.config, probe.args.difficulty)) =>
        /\ probe.out.exit # 0 /\ probe.out.reported /\ ~probe.out.engine

\* The part of C14 the code does keep: every failure of GameConfig.load
\* ends the launcher before the engine.
C14_LoadFailureFatal ==
    (/\ probe.op = "main" /\ probe.done
     /\ GameConfigLoad(probe.args.config, probe.args.difficulty).raised # "none") =>
        /\ probe.out.exit # 0 /\ probe.out.reported /\ ~probe.out.engine
        /\ ~probe.out.generated

(* C15.  One call of _handle_brick_collisions, which a PLAYING frame makes *)
(* at most once, changes at most one brick: either one brick loses exactly *)
(* one point of strength or one brick is removed, every other brick is     *)
(* left as it was, and the brick is the first of the list that the ball    *)
(* intersects, however many it intersects.                                 *)
\* The bricks before that are not among the bricks after, as they were.
Affected(before, after) ==
    {j \in 1 .. Len(before) : \A i \in 1 .. Len(after) : after[i] # before[j]}

\* The bricks before whose rect is not among the bricks after.
Removed(before, after) ==
    {j \in 1 .. Len(before) : \A i \in 1 .. Len(after) : after[i].rect # before[j].rect}

Overlapped(b, bs) == {j \in 1 .. Len(bs) : ColliderRect(b.rect, bs[j].rect)}

C15_OneBrickPerFrame ==
    (probe.op = "_handle_brick_collisions" /\ probe.done) =>
        /\ Cardinality(Affected(probe.bricks, probe.out.bricks)) <= 1
        /\ Len(probe.out.bricks) + Cardinality(Removed(probe.bricks, probe.out.bricks))
               = Len(probe.bricks)
        /\ \A j \in Affected(probe.bricks, probe.out.bricks) :
               /\ j \in Overlapped(probe.ball, probe.bricks)
               /\ \A k \in Overlapped(probe.ball, probe.bricks) : j <= k
               /\ j \notin Removed(probe.bricks, probe.out.bricks) =>
                      \E i \in 1 .. Len(probe.out.bricks) :
                          probe.out.bricks[i] =
                              [probe.bricks[j] EXCEPT !.strength = @ - 1]

\* The ball lay over two bricks, and the first of them was removed.
C15_Witness ==
    /\ probe.op = "_handle_brick_collisions" /\ probe.done
    /\ Cardinality(Overlapped(probe.ball, probe.bricks)) >= 2
    /\ Cardinality(Removed(probe.bricks, probe.out.bricks)) = 1
    /\ probe.out.destroyed /\ probe.out.score > 0

(* C16.  In every state of the engine, the initial one included, a ball    *)
(* that is not launched has velocity zero and is pinned on the paddle: its *)
(* centre-x is that of the paddle and its bottom is 4 above the paddle's   *)
(* top.                                                                    *)
C16_StuckIsPinned == ~ball.launched => StuckOn(ball, paddle)

\* The part of C16 the code does keep: at the end of every frame a ball that
\* is not launched is pinned on the paddle.
C16_PinnedAfterFrame ==
    (ev.kind = "frame" /\ ~ball.launched) => StuckOn(ball, paddle)

(* C17.  A PLAYING frame looks at the floor last, after the paddle, the    *)
(* bricks and the victory check: a frame in which the ball reaches the     *)
(* floor while it lies over a brick still hits that brick before the life  *)
(* is lost.                                                                *)
C17_FloorCheckedLast ==
    [][(FloorFrame /\ ev'.overBrick # 0) => bricks' # bricks]_vars

\* What the code does: a frame in which the ball reaches the floor touches
\* no brick, bounces off no paddle, and leaves score and victory alone.
C17_FloorReturnsEarly ==
    [][FloorFrame => /\ bricks' = bricks /\ score' = score /\ victory' = victory
                     /\ ~ev'.paddleHit /\ ev'.brickHit = 0]_vars

(* C18.  The score is never negative; within a session it changes only in *)
(* a frame that destroys a brick, and then grows by the points of that     *)
(* brick (a restart puts it back to 0); so it is always the sum of the     *)
(* points of the bricks destroyed so far, and on victory the sum of the    *)
(* points of all the bricks of the level.                                  *)
RECURSIVE SumPoints(_)
SumPoints(bs) == IF bs = <<>> THEN 0 ELSE Head(bs).points + SumPoints(Tail(bs))

ScoreIsDestroyedPoints ==
    /\ score >= 0
    /\ score = SumPoints(LevelBricks(Config, custom_layout)) - SumPoints(bricks)
    /\ victory => score = SumPoints(LevelBricks(Config, custom_layout))

ScoreStep ==
    score' # score =>
        \/ /\ ev'.kind = "frame" /\ ev'.destroyed /\ ev'.brickHit # 0
           /\ score' = score + bricks[ev'.brickHit].points
           /\ score' > score
        \/ RestartKey /\ state = "GAME_OVER" /\ score' = 0

C18_ScoreIsSumOfPoints == [] ScoreIsDestroyedPoints /\ [][ScoreStep]_vars

\* The level was cleared and the score is the points of all its bricks.
C18_Witness ==
    /\ victory /\ bricks = <<>> /\ ev.kind = "frame" /\ ev.destroyed
    /\ score = SumPoints(LevelBricks(Config, custom_layout)) /\ score > 0

(* C19.  lives starts at initial_lives and stays within 0 .. initial_lives *)
(* in every state; it changes only in a frame that loses the ball, by      *)
(* exactly -1, or on a restart, back to initial_lives.                     *)
LivesStep ==
    lives' # lives =>
        \/ FloorFrame /\ lives' = lives - 1
        \/ RestartKey /\ state = "GAME_OVER" /\ lives' = InitialLives

C19_LivesBounded ==
    /\ lives = InitialLives
    /\ [](lives >= 0 /\ lives <= InitialLives)
    /\ [][LivesStep]_vars

\* A game ended and a restart gave back all the lives, with score 0 and the
\* whole level.
C19_Witness ==
    /\ ev.kind = "key" /\ ev.key = "r" /\ ev.mode = "GAME_OVER"
    /\ lives = InitialLives /\ score = 0 /\ bricks = LevelBricks(Config, custom_layout)

(* C20.  launch() on a ball that rides the paddle sets it in flight, where *)
(* it is; launch() on a ball in flight changes nothing of it, neither its  *)
(* velocity nor its position: of two launches in a row only the first one  *)
(* acts.                                                                   *)
C20_LaunchOnce ==
    (probe.op \in {"Ball.launch", "sprites.Ball.launch"} /\ probe.done) =>
        /\ probe.pre.launched => probe.mid = probe.pre
        /\ ~probe.pre.launched =>
               /\ probe.mid.launched
               /\ probe.mid.rect = probe.pre.rect /\ probe.mid.pos = probe.pre.pos
               /\ SpeedIs(probe.mid.vel, BallSpeed) /\ probe.mid.vel[2] < 0
        /\ probe.post = probe.mid

\* The same on the engine: the launch key acts on a ball riding the paddle
\* and on no other, and nothing else sets the ball in flight.
C20_LaunchKeyOnce ==
    [][/\ (ev'.kind = "key" /\ ev'.key = "SPACE" /\ ball.launched) => ball' = ball
       /\ (~ball.launched /\ ball'.launched) =>
              /\ ev'.kind = "key" /\ ev'.key = "SPACE" /\ state' = "PLAYING"
              /\ ball'.rect = ball.rect /\ ball'.vel = LaunchVelocity]_vars

\* launch() was called on a ball in flight whose velocity is not the one a
\* launch gives, and left it as it was.
C20_Witness ==
    /\ probe.op = "Ball.launch" /\ probe.done
    /\ probe.pre.launched /\ probe.pre.vel # LaunchVelocity
    /\ probe.post = probe.pre

(* C21.  The key press that takes the engine from MENU to PLAYING changes  *)
(* nothing of the ball, which stays on the paddle; the ball is set in      *)
(* flight only by a key press handled while the engine is in PLAYING.      *)
C21_StartKeyOnlyStarts ==
    [][/\ (ev'.kind = "key" /\ state = "MENU" /\ state' = "PLAYING") =>
              ~ball'.launched /\ ball' = ball
       /\ (~ball.launched /\ ball'.launched) => state = "PLAYING"]_vars

\* What the code does: RETURN in MENU starts the game and leaves the ball,
\* SPACE in MENU starts the game and launches the ball in the same press.
C21_SpaceStartsAndLaunches ==
    [][(ev'.kind = "key" /\ state = "MENU" /\ state' = "PLAYING") =>
           /\ ev'.key = "RETURN" => ball' = ball
           /\ ev'.key = "SPACE" => ball'.launched /\ ball'.vel = LaunchVelocity]_vars

(* C22.  A frame bounces the ball off the paddle only when the ball was in *)
(* flight downward; after the bounce the ball moves strictly upward, its   *)
(* bottom is exactly one unit above the paddle's top and it does not       *)
(* intersect the paddle, so the next frame cannot bounce it again.         *)
AfterPaddleBounce(b, prect) ==
    /\ b.vel[2] < 0
    /\ Bottom(b.rect) = Top(prect) - BounceGap
    /\ ~ColliderRect(b.rect, prect)

PaddleBounceStep ==
    (ev'.kind = "frame" /\ ev'.paddleHit) =>
        /\ ball.launched /\ ball.vel[2] > 0
        /\ ~(ev.kind = "frame" /\ ev.paddleHit)
        /\ ev'.brickHit = 0 => AfterPaddleBounce(ball', paddle')

C22_PaddleBounceUpward == [][PaddleBounceStep]_vars

\* The same for every contact offset, on the operation itself.
C22_BounceLeavesPaddle ==
    (probe.op \in {"bounce", "sprites.bounce"} /\ probe.done) =>
        AfterPaddleBounce(probe.post, probe.paddle)

\* The ball has just bounced off the end of the paddle, and flies sideways
\* and up from one unit above it.
C22_Witness ==
    /\ ev.kind = "frame" /\ ev.paddleHit /\ ev.brickHit = 0
    /\ CenterX(ball.rect) # CenterX(paddle) /\ ball.vel[1] # 0
    /\ AfterPaddleBounce(ball, paddle)

(* C23.  A ball-brick collision is resolved on a side of least            *)
(* penetration: for a side whose overlap is the smallest of the four, the  *)
(* ball is put just outside that side, so that it no longer intersects the *)
(* brick, the velocity component across that side changes sign and the     *)
(* other component keeps its sign.                                         *)
\* The ball b0 was resolved into b1 through the given side of the brick.
ResolvedOn(side, b0, b1, brect) ==
    /\ side = "left" => Right(b1.rect) = Left(brect) - BounceGap
    /\ side = "right" => Left(b1.rect) = Right(brect) + BounceGap
    /\ side = "top" => Bottom(b1.rect) = Top(brect) - BounceGap
    /\ side = "bottom" => Top(b1.rect) = Bottom(brect) + BounceGap
    /\ side \in {"left", "right"} =>
           /\ b1.rect.y = b0.rect.y
           /\ Sign(b1.vel[1]) = -Sign(b0.vel[1]) /\ Sign(b1.vel[2]) = Sign(b0.vel[2])
    /\ side \in {"top", "bottom"} =>
           /\ b1.rect.x = b0.rect.x
           /\ Sign(b1.vel[1]) = Sign(b0.vel[1]) /\ Sign(b1.vel[2]) = -Sign(b0.vel[2])

SideOverlap(side, b, brect) ==
    IF side = "left" THEN Right(b.rect) - Left(brect)
    ELSE IF side = "right" THEN Right(brect) - Left(b.rect)
    ELSE IF side = "top" THEN Bottom(b.rect) - Top(brect)
    ELSE Bottom(brect) - Top(b.rect)

Sides == {"left", "right", "top", "bottom"}

C23_LeastPenetration ==
    (probe.op = "_handle_brick_collisions" /\ probe.done /\ probe.out.hit # 0) =>
        /\ ~ColliderRect(probe.out.ball.rect, probe.bricks[probe.out.hit].rect)
        /\ SpeedIs(probe.out.ball.vel, BallSpeed)
        /\ \E side \in Sides :
               /\ \A other \in Sides :
                      SideOverlap(side, probe.ball, probe.bricks[probe.out.hit].rect)
                          <= SideOverlap(other, probe.ball,
                                         probe.bricks[probe.out.hit].rect)
               /\ ResolvedOn(side, probe.ball, probe.out.ball,
                             probe.bricks[probe.out.hit].rect)

\* A ball flying up and to the right entered a brick from below, deeper
\* sideways than upward, and left it downward.
C23_Witness ==
    /\ probe.op = "_handle_brick_collisions" /\ probe.done /\ probe.out.hit # 0
    /\ probe.ball.vel[1] > 0 /\ probe.ball.vel[2] < 0
    /\ SideOverlap("bottom", probe.ball, probe.bricks[probe.out.hit].rect)
           < SideOverlap("left", probe.ball, probe.bricks[probe.out.hit].rect)
    /\ SideOverlap("bottom", probe.ball, probe.bricks[probe.out.hit].rect)
           < SideOverlap("right", probe.ball, probe.bricks[probe.out.hit].rect)
    /\ probe.out.ball.vel[1] > 0 /\ probe.out.ball.vel[2] > 0
    /\ Top(probe.out.ball.rect) = Bottom(probe.bricks[probe.out.hit].rect) + BounceGap

(* C24.  Every brick of the level has strength at least 1; a brick leaves  *)
(* the level in the very frame in which a hit brings its strength to 0;    *)
(* and between two restarts the level only loses bricks and strength.      *)
LiveBricksStrong == \A i \in 1 .. Len(bricks) : bricks[i].strength >= 1

BricksStep ==
    bricks' # bricks =>
        \/ /\ ev'.kind = "frame" /\ ev'.mode = "PLAYING" /\ ev'.brickHit # 0
           /\ IF bricks[ev'.brickHit].strength - 1 <= 0
              THEN ev'.destroyed /\ bricks' = RemoveAt(bricks, ev'.brickHit)
              ELSE /\ ~ev'.destroyed
                   /\ bricks' = [bricks EXCEPT ![ev'.brickHit].strength = @ - 1]
        \/ RestartKey /\ state = "GAME_OVER"

C24_LiveBricksStrong == [] LiveBricksStrong /\ [][BricksStep]_vars

\* A brick of strength 2 was hit twice: it stayed, with strength 1, after
\* the first hit and left the level in the frame of the second.
C24_Witness ==
    /\ ev.kind = "frame" /\ ev.destroyed /\ ev.brickHit # 0
    /\ custom_layout # <<>>
    /\ Len(bricks) = Len(custom_layout) - 1
    /\ \A i \in 1 .. Len(bricks) : bricks[i].strength = 1

(* C25.  When the launcher loads a level file and starts the engine, the   *)
(* level holds exactly one brick per descriptor of the loaded layout, in   *)
(* the order of the descriptors, each with the position, the dimensions    *)
(* and the strength of its descriptor.                                     *)
C25_LevelIsLayout ==
    (MainLoadsLevel /\ probe.out.engine) =>
        /\ Len(probe.level) = Len(probe.out.layout)
        /\ \A i \in 1 .. Len(probe.out.layout) :
               /\ i <= Len(probe.level)
               /\ probe.level[i].rect =
                      Rect(probe.out.layout[i].x, probe.out.layout[i].y,
                           probe.out.layout[i].width, probe.out.layout[i].height)
               /\ probe.level[i].strength = probe.out.layout[i].strength

\* The part of C25 the code does keep: a layout that is not empty gives one
\* brick per descriptor, in order, at the descriptor's rectangle, of the
\* descriptor's strength when that is at least 1; and an empty layout gives
\* the procedural grid.
C25_LevelOfNonEmptyLayout ==
    (MainLoadsLevel /\ probe.out.engine) =>
        IF probe.out.layout = <<>>
        THEN Len(probe.level) = BrickRows * BrickCols
        ELSE /\ Len(probe.level) = Len(probe.out.layout)
             /\ \A i \in 1 .. Len(probe.out.layout) :
                    /\ probe.level[i].rect =
                           Rect(probe.out.layout[i].x, probe.out.layout[i].y,
                                probe.out.layout[i].width,
                                probe.out.layout[i].height)
                    /\ probe.out.layout[i].strength >= 1 =>
                           probe.level[i].strength = probe.out.layout[i].strength
                    /\ probe.level[i].strength >= 1

(* C26.  In a level built without a layout the brick of row r has the     *)
(* strength max(1, base + (rows - r - 1)), which is at least 1; a brick of *)
(* a row further down is never stronger than one of a row further up; and  *)
(* the points of every brick are 50 times its strength.                    *)
\* The row of the k-th brick of a level built row by row.
RowOf(k, cfg) == (k - 1) \div cfg.brick_cols

C26_ProceduralStrength ==
    (probe.op = "Level" /\ probe.done) =>
        /\ \A k \in 1 .. Len(probe.out) :
               /\ probe.out[k].strength =
                      Max2(1, probe.cfg.brick_strength
                              + (probe.cfg.brick_rows - RowOf(k, probe.cfg) - 1))
               /\ probe.out[k].strength >= 1
               /\ probe.out[k].points = 50 * probe.out[k].strength
        /\ \A k \in 1 .. Len(probe.out), l \in 1 .. Len(probe.out) :
               RowOf(k, probe.cfg) < RowOf(l, probe.cfg) =>
                   probe.out[k].strength >= probe.out[l].strength

\* Three rows on the base strength 0: the top row has strength 2, and the
\* bottom row, where the formula would give 0, has strength 1.
C26_Witness ==
    /\ probe.op = "Level" /\ probe.done
    /\ probe.cfg.brick_rows = 3 /\ probe.cfg.brick_strength = 0
    /\ Len(probe.out) = 3 * probe.cfg.brick_cols
    /\ probe.out[1].strength = 2 /\ probe.out[1].points = 100
    /\ probe.out[Len(probe.out)].strength = 1

(* C27.  The engine is in GAME_OVER exactly when the victory flag is set   *)
(* or no life is left, and never both: with the victory flag set at least  *)
(* one life is left, and with no life left the victory flag is not set.    *)
C27_GameOverIffWonOrLost ==
    /\ state = "GAME_OVER" <=> (victory \/ lives <= 0)
    /\ victory => lives >= 1
    /\ lives = 0 => ~victory

\* The level was won with one life lost on the way.
C27_Witness ==
    /\ state = "GAME_OVER" /\ victory /\ lives >= 1 /\ lives < InitialLives
    /\ ev.kind = "frame" /\ ev.mode = "PLAYING"

\* The last life was lost with bricks left.
C27_WitnessLost ==
    /\ state = "GAME_OVER" /\ ~victory /\ lives = 0 /\ bricks # <<>>
    /\ ev.kind = "frame" /\ ev.floor

(* C28.  After every PLAYING frame the ball's rectangle has its left edge  *)
(* at or right of 0, its right edge at or left of the window width and its *)
(* top edge at or below 0, also when the frame resolved a brick collision  *)
(* after the walls.                                                        *)
BallInsideWalls(b) ==
    /\ Left(b.rect) >= 0 /\ Right(b.rect) <= WindowWidth /\ Top(b.rect) >= 0

C28_BallInsideWalls ==
    (ev.kind = "frame" /\ ev.mode = "PLAYING") => BallInsideWalls(ball)

\* The part of C28 the code does keep: a frame that resolved no brick
\* collision leaves the ball inside the walls if it found it there.
C28_InsideWithoutBrick ==
    [][(ev'.kind = "frame" /\ ev'.mode = "PLAYING" /\ ev'.brickHit = 0
        /\ BallInsideWalls(ball)) => BallInsideWalls(ball')]_vars

(* C29.  A frame processed in MENU or in GAME_OVER leaves the score, the   *)
(* lives, the victory flag, the bricks with their strengths, the paddle    *)
(* and the engine state as they are, and leaves the ball riding the        *)
(* paddle, not launched and at rest.                                       *)
IdleFrame == ev'.kind = "frame" /\ ev'.mode \in {"MENU", "GAME_OVER"}

C29_IdleFrameResetsBall ==
    [][IdleFrame =>
         /\ state \in {"MENU", "GAME_OVER"}
         /\ UNCHANGED <<state, score, lives, victory, bricks, paddle>>
         /\ StuckOn(ball', paddle)]_vars

\* The last life was lost with the paddle moved away from the centre, and
\* the next frame, in GAME_OVER, took the ball from the floor to the paddle.
C29_Witness ==
    /\ ev.kind = "frame" /\ ev.mode = "GAME_OVER" /\ state = "GAME_OVER"
    /\ lives = 0 /\ bricks # <<>> /\ paddle # PaddleInit
    /\ StuckOn(ball, paddle)

====
